---- MODULE Spec2Model ----
(***************************************************************************)
(* Model of the event controller of poc-image2description: the `post`      *)
(* handler (src/unnamed/part_000, lines 21-91), the text generation        *)
(* service it awaits (descriptionGeneration.service.ts) and the catalog    *)
(* repository it awaits (product.repository.ts); and of the image analysis *)
(* function getImageData (src/unnamed/part_001, lines 26-50).              *)
(*                                                                         *)
(* One handler invocation is a small process: it runs synchronously from   *)
(* the arrival of the request up to its first `await` (action Receive) and *)
(* is resumed once per awaited promise (the ...Returns / ...Throws         *)
(* actions).  Requests live in the slots Reqs; the variables are functions *)
(* of the slot.                                                            *)
(***************************************************************************)
EXTENDS Integers, Sequences, FiniteSets, TLC

\* ------------------------------------------------------------------ bounds
MaxAttrs == 2          \* longest masterVariant.attributes list enumerated
MaxImages == 2         \* longest masterVariant.images list enumerated
NumReqs == 2           \* request slots
MaxLabels == 6         \* longest label / object annotation list enumerated
MaxColors == 4         \* longest dominant-colors list enumerated
MaxTexts == 2          \* longest text annotation list enumerated
MaxWebEntities == 6    \* longest web-entities list enumerated

Reqs == 1..NumReqs

SeqsUpTo(S, n) == UNION {[1..k -> S] : k \in 0..n}

\* ------------------------------------------------------- JavaScript values
\* A JSON / JavaScript value is a pair <<type, text>>, so that the string
\* "true" and the boolean true are different values, as they are for `!==`.
JStr(s) == <<"string", s>>
JTrue == <<"boolean", "true">>
JFalse == <<"boolean", "false">>
Undefined == <<"undefined", "">>

\* JavaScript truthiness, as used by `productId && imageUrl` and `!decodedData`.
Truthy(v) ==
    CASE v[1] = "string" -> v[2] # ""
      [] v[1] = "boolean" -> v[2] = "true"
      [] OTHER -> FALSE

\* A thrown value: an Error carrying a message, or some other value.
Err(m) == <<"Error", m>>
NonError == <<"nonError", "thrown-string">>
IsError(t) == t[1] = "Error"

\* --------------------------------------------------------------- constants
FlagKeyAlt == "gen-description"
FlagKey == "generateDescription"

\* The messages of the responses (the source prefixes some with an emoji).
MsgNoData == "No data found in Pub/Sub message."
MsgNotEnabled == "The option for automatic description generation is not enabled."
MsgInternal == "Internal server error. Failed to process request."
MsgUnexpected == "Unexpected error occurred."

\* Messages of the errors the JavaScript runtime itself throws in the handler.
TypeErrorNoMessage == "Cannot read properties of undefined (reading 'data')"
TypeErrorNull == "Cannot read properties of null (reading 'resource')"
SyntaxErrorMsg == "Unexpected token i in JSON at position 0"

\* ------------------------------------------------------------------ inputs
TypeIds == {Undefined, JStr("product"), JStr("category")}
ProductIds == {Undefined, JStr(""), JStr("p1"), JStr("p2")}
Urls == {Undefined, JStr(""), JStr("u1"), JStr("u2")}
ImageEntries == [url : Urls]
AttrEntries ==
    [name : {FlagKey}, value : {JStr("true"), JStr("false"), JTrue, JFalse}]
    \cup [name : {FlagKeyAlt, "color"}, value : {JStr("true")}]

\* An optional array: absent, or an array (possibly empty).
NoArray == [present |-> FALSE, items |-> <<>>]
OptArrays(S, n) == {NoArray} \cup [present : {TRUE}, items : SeqsUpTo(S, n)]

\* The parsed JSON object.  hasProjection / hasMasterVariant say whether
\* productProjection and productProjection.masterVariant exist.
Events ==
    [typeId : TypeIds, hasProjection : {FALSE}, id : {Undefined},
     hasMasterVariant : {FALSE}, images : {NoArray}, attributes : {NoArray}]
    \cup
    [typeId : TypeIds, hasProjection : {TRUE}, id : ProductIds,
     hasMasterVariant : {FALSE}, images : {NoArray}, attributes : {NoArray}]
    \cup
    [typeId : TypeIds, hasProjection : {TRUE}, id : ProductIds,
     hasMasterVariant : {TRUE}, images : OptArrays(ImageEntries, MaxImages),
     attributes : OptArrays(AttrEntries, MaxAttrs)]

NoEvent ==
    [typeId |-> Undefined, hasProjection |-> FALSE, id |-> Undefined,
     hasMasterVariant |-> FALSE, images |-> NoArray, attributes |-> NoArray]

SampleEvent ==
    [typeId |-> JStr("product"), hasProjection |-> TRUE, id |-> JStr("p1"),
     hasMasterVariant |-> TRUE,
     images |-> [present |-> TRUE, items |-> <<[url |-> JStr("u1")]>>],
     attributes |-> [present |-> TRUE,
                     items |-> <<[name |-> FlagKey, value |-> JStr("true")]>>]]

\* The text a payload decodes to: a core, possibly surrounded by whitespace.
\* core.kind: "empty" (no characters), "garbage" (not JSON), "null" (the JSON
\* text null) or "object" (the JSON text of core.event).
Texts ==
    [pad : BOOLEAN, core : [kind : {"empty", "garbage", "null"}, event : {NoEvent}]]
    \cup [pad : {TRUE}, core : [kind : {"object"}, event : {SampleEvent}]]
    \cup [pad : {FALSE}, core : [kind : {"object"}, event : Events]]

EmptyText == [pad |-> FALSE, core |-> [kind |-> "empty", event |-> NoEvent]]

\* message.data: absent, or a base64 string that encodes a text (the base64
\* string of the text without characters is the empty string).
NoData == [present |-> FALSE, text |-> EmptyText]
Datas == {NoData} \cup [present : {TRUE}, text : Texts]

\* request.body: with or without a `message` object.
Envelopes ==
    {[hasMessage |-> FALSE, data |-> NoData]}
    \cup [hasMessage : {TRUE}, data : Datas]

NoEnvelope == [hasMessage |-> FALSE, data |-> NoData]

\* What the collaborators can return or throw.
Analyses == {<<"ImageData", "a1">>, <<"ImageData", "a2">>}
Descriptions == {JStr(""), JStr("d1"), JStr("d2")}
Thrown == {Err("boom"), Err("quota"), NonError}
ConflictError == Err("ConcurrentModification")
NotFoundError == Err("NotFound")
CatalogIds == {"p1"}

\* ------------------------------------------------------------------- state
VARIABLES
    pc,        \* where each handler invocation stands
    env,       \* request.body of each request
    locals,    \* the handler's local variables
    calls,     \* the collaborator calls each request made, in order
    sent,      \* the responses each request sent, in order
    catalog,   \* the catalog: product id -> version and description
    detected,  \* what the image annotator answered to getImageData
    analysis   \* what getImageData returned: <<>> until it returns

vars == <<pc, env, locals, calls, sent, catalog, detected, analysis>>

NoLocals ==
    [productId |-> Undefined, imageUrl |-> Undefined, imageData |-> Undefined,
     description |-> Undefined, currentVersion |-> 0]

Pending == [kind |-> "pending", val |-> Undefined]
Returned(v) == [kind |-> "ok", val |-> v]
Threw(t) == [kind |-> "throw", val |-> t]
Call(fn, args) == [fn |-> fn, args |-> args, out |-> Pending]

\* ---------------------------------------------------------- image analysis
\* getImageData (src/unnamed/part_001, lines 26-50).
\*
\* A string built by the function is either a literal of the source or the
\* `join(', ')` of a list of parts; the empty string has no literal and no
\* parts.  A description of the annotator is the pair <<kind, i>>, the
\* description of the i-th entry of its list.
Lit(text) == [literal |-> text, parts |-> <<>>]
Join(parts) == [literal |-> "", parts |-> parts]
EmptyString == Lit("")

\* `x || fallback` on a string: the empty string is falsy.
OrElse(str, fallback) == IF str = EmptyString THEN fallback ELSE str

\* Mutant of Slice: the whole array.
SliceAll(items, n) == items

\* Array.prototype.slice(0, n)
Slice(items, n) == SubSeq(items, 1, IF Len(items) < n THEN Len(items) ELSE n)


ColorCap == 3
WebEntityCap == 5

\* A colour channel is a number of halves (511 stands for 255.5), so that
\* Math.round has something to round; it rounds halves up.
Round(halves) == (halves + 1) \div 2

\* `${Math.round(rgb.red)}, ${Math.round(rgb.green)}, ${Math.round(rgb.blue)}`
FormatColor(c) ==
    Join(<<Round(c.color.red), Round(c.color.green), Round(c.color.blue)>>)

\* The i-th entries of the annotation lists.
LabelEntry(i) == [description |-> <<"label", i>>]
ObjectEntry(i) == [name |-> <<"object", i>>]
ColorEntry(i) == [color |-> [red |-> 2 * i + 1, green |-> 2 * i, blue |-> 510]]
TextEntry(i) == [description |-> <<"text", i>>]
WebEntry(i) == [description |-> <<"web", i>>]

\* An annotation list: absent, or the list of the first k of `entries`.
Annotations(entries) ==
    {NoArray} \cup {[present |-> TRUE, items |-> SubSeq(entries, 1, k)] : k \in 0..Len(entries)}

\* What visionClient.annotateImage can answer.  `colors` stands for
\* imagePropertiesAnnotation?.dominantColors?.colors and `webEntities` for
\* webDetection?.webEntities: absent when any step of the path is missing.
VisionResults ==
    [labelAnnotations : Annotations([i \in 1..MaxLabels |-> LabelEntry(i)]),
     localizedObjectAnnotations : Annotations([i \in 1..MaxLabels |-> ObjectEntry(i)]),
     colors : Annotations([i \in 1..MaxColors |-> ColorEntry(i)]),
     textAnnotations : Annotations([i \in 1..MaxTexts |-> TextEntry(i)]),
     webEntities : Annotations([i \in 1..MaxWebEntities |-> WebEntry(i)])]

NoDetection ==
    [labelAnnotations |-> NoArray, localizedObjectAnnotations |-> NoArray,
     colors |-> NoArray, textAnnotations |-> NoArray, webEntities |-> NoArray]

\* Array.prototype.map with each of the three callbacks of the source.
DescriptionOf(e) == e.description
NameOf(e) == e.name
MapDescription(items) == [i \in 1..Len(items) |-> DescriptionOf(items[i])]
MapName(items) == [i \in 1..Len(items) |-> NameOf(items[i])]
MapFormatColor(items) == [i \in 1..Len(items) |-> FormatColor(items[i])]

\* result.labelAnnotations?.map(...).join(', ') || 'No labels detected'
LabelsField(result) ==
    IF ~result.labelAnnotations.present
    THEN Lit("No labels detected")
    ELSE OrElse(Join(MapDescription(result.labelAnnotations.items)),
                Lit("No labels detected"))

\* result.localizedObjectAnnotations?.map(...).join(', ') || 'No objects detected'
ObjectsField(result) ==
    IF ~result.localizedObjectAnnotations.present
    THEN Lit("No objects detected")
    ELSE OrElse(Join(MapName(result.localizedObjectAnnotations.items)),
                Lit("No objects detected"))

\* ...colors?.slice(0, 3).map(...) || ['No colors detected']: an array,
\* even an empty one, is truthy.
ColorsField(result) ==
    IF ~result.colors.present
    THEN <<Lit("No colors detected")>>
    ELSE MapFormatColor(Slice(result.colors.items, ColorCap))

\* result.textAnnotations?.[0]?.description || 'No text detected'
DetectedTextField(result) ==
    IF ~result.textAnnotations.present \/ result.textAnnotations.items = <<>>
    THEN Lit("No text detected")
    ELSE OrElse(Join(<<result.textAnnotations.items[1].description>>),
                Lit("No text detected"))

\* ...webEntities?.slice(0, 5).map(...).join(', ') || 'No web entities detected'
WebEntitiesField(result) ==
    IF ~result.webEntities.present
    THEN Lit("No web entities detected")
    ELSE OrElse(Join(MapDescription(Slice(result.webEntities.items, WebEntityCap))),
                Lit("No web entities detected"))

getImageData(result) ==
    [labels |-> LabelsField(result),
     objects |-> ObjectsField(result),
     colors |-> ColorsField(result),
     detectedText |-> DetectedTextField(result),
     webEntities |-> WebEntitiesField(result)]

\* ------------------------------------------------------------ initial state
HandlerInit ==
    /\ pc = [r \in Reqs |-> "idle"]
    /\ env = [r \in Reqs |-> NoEnvelope]
    /\ locals = [r \in Reqs |-> NoLocals]
    /\ calls = [r \in Reqs |-> <<>>]
    /\ sent = [r \in Reqs |-> <<>>]
    /\ catalog = [p \in CatalogIds |-> [version |-> 1, description |-> Undefined]]

Init ==
    /\ HandlerInit
    /\ detected = NoDetection
    /\ analysis = <<>>

\* ------------------------------------------------- decoding and extraction
\* `pubSubMessage.data ? ... : undefined`: a string is truthy unless empty.
DataTruthy(d) == d.present /\ d.text # EmptyText

\* Buffer.from(data, 'base64').toString()
Base64Decode(d) == d.text

\* Mutant of Trim: the text is left as it was decoded.
TrimNothing(t) == t

\* String.prototype.trim()
Trim(t) == [t EXCEPT !.pad = FALSE]

\* decodedData: undefined, or the trimmed decoded text.
DecodedData(d) ==
    IF DataTruthy(d)
    THEN [defined |-> TRUE, text |-> Trim(Base64Decode(d))]
    ELSE [defined |-> FALSE, text |-> EmptyText]

\* Mutant of NoDecodedData: the check for missing data is left out.
NoDecodedDataUnchecked(dd) == FALSE

\* `!decodedData`: undefined or the empty string.
NoDecodedData(dd) == ~dd.defined \/ dd.text = EmptyText

\* JSON.parse(decodedData) throws a SyntaxError on a text that is not JSON.
ParseThrows(t) == t.core.kind \in {"garbage", "empty"}

\* Mutant of ProductIdOf: the id is read only from events of products.
ProductIdOfProduct(ev) ==
    IF ev.typeId = JStr("product") /\ ev.hasProjection THEN ev.id ELSE Undefined

\* jsonData.productProjection?.id
ProductIdOf(ev) == IF ev.hasProjection THEN ev.id ELSE Undefined

\* jsonData.productProjection?.masterVariant?.images?.[0]?.url
ImageUrlOf(ev) ==
    IF ev.hasProjection /\ ev.hasMasterVariant /\ ev.images.present
       /\ Len(ev.images.items) >= 1
    THEN ev.images.items[1].url
    ELSE Undefined

\* jsonData.productProjection?.masterVariant?.attributes || []
AttributesOf(ev) ==
    IF ev.hasProjection /\ ev.hasMasterVariant /\ ev.attributes.present
    THEN ev.attributes.items
    ELSE <<>>

\* Mutant of FindValue: the value of the last attribute of that name.
FindValueLast(attributes, key) ==
    LET hits == {i \in 1..Len(attributes) : attributes[i].name = key}
    IN IF hits = {} THEN Undefined
       ELSE attributes[CHOOSE i \in hits : \A j \in hits : j <= i].value

\* attributes.find(attr => attr.name === key)?.value
FindValue(attributes, key) ==
    LET hits == {i \in 1..Len(attributes) : attributes[i].name = key}
    IN IF hits = {} THEN Undefined
       ELSE attributes[CHOOSE i \in hits : \A j \in hits : i <= j].value

GenDescriptionValue(ev) == FindValue(AttributesOf(ev), FlagKey)

\* Mutant of GateOpen: any truthy flag value opens the gate.
GateOpenTruthy(v) == Truthy(v)

\* The gate `genDescriptionValue !== 'true'` lets the pipeline run.
GateOpen(v) == v = JStr("true")

\* ---------------------------------------------------------------- responses
MissingDataResponse == [status |-> 400, body |-> [error |-> MsgNoData]]

SkipResponse(productId, imageUrl) ==
    [status |-> 200,
     body |-> [message |-> MsgNotEnabled, productId |-> productId,
               imageUrl |-> imageUrl]]

\* Mutant of SuccessResponse: the whole update response instead of its body.
SuccessResponseWholeUpdate(l, updateResponse) ==
    [status |-> 200,
     body |-> [productId |-> l.productId, imageUrl |-> l.imageUrl,
               description |-> l.description, productAnalysis |-> l.imageData,
               commerceToolsUpdate |-> updateResponse]]

SuccessResponse(l, updateResponse) ==
    [status |-> 200,
     body |-> [productId |-> l.productId, imageUrl |-> l.imageUrl,
               description |-> l.description, productAnalysis |-> l.imageData,
               commerceToolsUpdate |-> updateResponse.body]]

\* Mutant of ErrorResponse: the message of the Error is not reported.
ErrorResponseNoDetails(t) ==
    IF IsError(t)
    THEN [status |-> 500, body |-> [error |-> MsgInternal]]
    ELSE [status |-> 500, body |-> [error |-> MsgUnexpected]]

\* Mutant of ErrorResponse: every failure is reported as a bad request.
ErrorResponseBadRequest(t) ==
    IF IsError(t)
    THEN [status |-> 400, body |-> [error |-> MsgInternal, details |-> t[2]]]
    ELSE [status |-> 400, body |-> [error |-> MsgUnexpected]]

\* Mutant of ErrorResponse: a thrown value that is no Error is reported
\* with details of its own.
ErrorResponseUnknownDetails(t) ==
    IF IsError(t)
    THEN [status |-> 500, body |-> [error |-> MsgInternal, details |-> t[2]]]
    ELSE [status |-> 500, body |-> [error |-> MsgUnexpected,
                                    details |-> "Unknown error occurred"]]

\* The catch block of the handler.
ErrorResponse(t) ==
    IF IsError(t)
    THEN [status |-> 500, body |-> [error |-> MsgInternal, details |-> t[2]]]
    ELSE [status |-> 500, body |-> [error |-> MsgUnexpected]]

\* ------------------------------------------------------------- the handler
\* The handler from its entry to its first await, or to its return: the next
\* control point, the locals, the calls issued and the responses sent.
Outcome(next, l, cs, rs) == [pc |-> next, locals |-> l, calls |-> cs, sent |-> rs]

\* Mutant of PostSync: a body without message is tested for and answered
\* as a bad request.
PostSyncMessageChecked(e) ==
    IF ~e.hasMessage
    THEN Outcome("done", NoLocals, <<>>, <<MissingDataResponse>>)
    ELSE
    LET decodedData == DecodedData(e.data) IN
    IF NoDecodedData(decodedData)
    THEN Outcome("done", NoLocals, <<>>, <<MissingDataResponse>>)
    ELSE IF ParseThrows(decodedData.text)
    THEN Outcome("done", NoLocals, <<>>, <<ErrorResponse(Err(SyntaxErrorMsg))>>)
    ELSE IF decodedData.text.core.kind = "null"
    THEN Outcome("done", NoLocals, <<>>, <<ErrorResponse(Err(TypeErrorNull))>>)
    ELSE
    LET jsonData == decodedData.text.core.event
        productId == ProductIdOf(jsonData)
        imageUrl == ImageUrlOf(jsonData)
        l == [NoLocals EXCEPT !.productId = productId, !.imageUrl = imageUrl]
    IN
    IF Truthy(productId) /\ Truthy(imageUrl)
    THEN IF ~GateOpen(GenDescriptionValue(jsonData))
         THEN Outcome("done", l, <<>>, <<SkipResponse(productId, imageUrl)>>)
         ELSE Outcome("analyzing", l, <<Call("productAnalysis", <<imageUrl>>)>>, <<>>)
    ELSE Outcome("done", l, <<>>, <<>>)

PostSync(e) ==
    IF ~e.hasMessage
    THEN Outcome("done", NoLocals, <<>>, <<ErrorResponse(Err(TypeErrorNoMessage))>>)
    ELSE
    LET decodedData == DecodedData(e.data) IN
    IF NoDecodedData(decodedData)
    THEN Outcome("done", NoLocals, <<>>, <<MissingDataResponse>>)
    ELSE IF ParseThrows(decodedData.text)
    THEN Outcome("done", NoLocals, <<>>, <<ErrorResponse(Err(SyntaxErrorMsg))>>)
    ELSE IF decodedData.text.core.kind = "null"
    THEN Outcome("done", NoLocals, <<>>, <<ErrorResponse(Err(TypeErrorNull))>>)
    ELSE
    LET jsonData == decodedData.text.core.event
        productId == ProductIdOf(jsonData)
        imageUrl == ImageUrlOf(jsonData)
        l == [NoLocals EXCEPT !.productId = productId, !.imageUrl = imageUrl]
    IN
    IF Truthy(productId) /\ Truthy(imageUrl)
    THEN IF ~GateOpen(GenDescriptionValue(jsonData))
         THEN Outcome("done", l, <<>>, <<SkipResponse(productId, imageUrl)>>)
         ELSE Outcome("analyzing", l, <<Call("productAnalysis", <<imageUrl>>)>>, <<>>)
    ELSE Outcome("done", l, <<>>, <<>>)

\* A request arrives and the handler runs up to its first await.
Receive(r, e) ==
    /\ pc[r] = "idle"
    /\ LET o == PostSync(e) IN
         /\ pc' = [pc EXCEPT ![r] = o.pc]
         /\ locals' = [locals EXCEPT ![r] = o.locals]
         /\ calls' = [calls EXCEPT ![r] = o.calls]
         /\ sent' = [sent EXCEPT ![r] = o.sent]
    /\ env' = [env EXCEPT ![r] = e]
    /\ UNCHANGED <<detected, analysis, catalog>>

\* Some request arrives in slot r.
Arrive(r) ==
    /\ pc[r] = "idle"
    /\ \E e \in Envelopes : Receive(r, e)

\* The innermost pending call of the request returns `v`.
Complete(cs, v) ==
    LET open == {i \in 1..Len(cs) : cs[i].out.kind = "pending"}
        top == CHOOSE i \in open : \A j \in open : j <= i
    IN [cs EXCEPT ![top].out = Returned(v)]

\* An awaited call threw: every call still pending on the stack throws the
\* same value, up to the handler's catch block, which answers.
Unwind(cs, t) ==
    [i \in 1..Len(cs) |->
        IF cs[i].out.kind = "pending" THEN [cs[i] EXCEPT !.out = Threw(t)] ELSE cs[i]]

\* Mutant of Catch: a thrown value that is no Error is thrown on, out of the
\* handler, and nothing is sent.
CatchRethrowsUnknown(r, t) ==
    /\ pc' = [pc EXCEPT ![r] = IF IsError(t) THEN "done" ELSE "crashed"]
    /\ calls' = [calls EXCEPT ![r] = Unwind(@, t)]
    /\ sent' = [sent EXCEPT ![r] =
            IF IsError(t) THEN Append(@, ErrorResponse(t)) ELSE @]

Catch(r, t) ==
    /\ pc' = [pc EXCEPT ![r] = "done"]
    /\ calls' = [calls EXCEPT ![r] = Unwind(@, t)]
    /\ sent' = [sent EXCEPT ![r] = Append(@, ErrorResponse(t))]

\* The prompt generateProductDescription builds from the image data.
Prompt(imageData) == <<"prompt", imageData[2]>>

\* Mutant of AnalysisReturns: imageData is a variable of the module, which
\* every request in flight reads and writes.
AnalysisReturnsShared(r, a) ==
    /\ pc[r] = "analyzing"
    /\ pc' = [pc EXCEPT ![r] = "generating"]
    /\ locals' = [q \in Reqs |-> [locals[q] EXCEPT !.imageData = a]]
    /\ calls' = [calls EXCEPT ![r] =
            Complete(@, a)
            \o <<Call("generateProductDescription", <<a>>),
                 Call("model.generateContent", <<Prompt(a)>>)>>]
    /\ UNCHANGED <<detected, analysis, env, sent, catalog>>

\* productAnalysis resolved: the handler calls generateProductDescription,
\* which sends the prompt to the model and awaits it.
AnalysisReturns(r, a) ==
    /\ pc[r] = "analyzing"
    /\ pc' = [pc EXCEPT ![r] = "generating"]
    /\ locals' = [locals EXCEPT ![r].imageData = a]
    /\ calls' = [calls EXCEPT ![r] =
            Complete(@, a)
            \o <<Call("generateProductDescription", <<a>>),
                 Call("model.generateContent", <<Prompt(a)>>)>>]
    /\ UNCHANGED <<detected, analysis, env, sent, catalog>>

\* Mutant of AnalysisThrows: a failed analysis is tried again.
AnalysisThrowsRetry(r, t) ==
    /\ pc[r] = "analyzing"
    /\ calls' = [calls EXCEPT ![r] =
            Append(Unwind(@, t), Call("productAnalysis", <<locals[r].imageUrl>>))]
    /\ UNCHANGED <<detected, analysis, pc, env, locals, sent, catalog>>

AnalysisThrows(r, t) ==
    /\ pc[r] = "analyzing"
    /\ Catch(r, t)
    /\ UNCHANGED <<detected, analysis, env, locals, catalog>>

\* The model answered with the text d: generateProductDescription returns it,
\* the handler calls updateProductDescription, which reads the product.
GenerationReturns(r, d) ==
    /\ pc[r] = "generating"
    /\ pc' = [pc EXCEPT ![r] = "reading"]
    /\ locals' = [locals EXCEPT ![r].description = d]
    /\ calls' = [calls EXCEPT ![r] =
            Complete(Complete(@, d), d)
            \o <<Call("updateProductDescription", <<locals[r].productId, d>>),
                 Call("products.get", <<locals[r].productId>>)>>]
    /\ UNCHANGED <<detected, analysis, env, sent, catalog>>

\* Mutant of GenerationThrows: the handler logs the failure of the stage and
\* goes on to the next stage with an undefined description.
GenerationThrowsContinue(r, t) ==
    /\ pc[r] = "generating"
    /\ pc' = [pc EXCEPT ![r] = "reading"]
    /\ locals' = [locals EXCEPT ![r].description = Undefined]
    /\ calls' = [calls EXCEPT ![r] =
            Unwind(@, t)
            \o <<Call("updateProductDescription", <<locals[r].productId, Undefined>>),
                 Call("products.get", <<locals[r].productId>>)>>]
    /\ UNCHANGED <<detected, analysis, env, sent, catalog>>

\* The model call failed: the service logs and rethrows.
GenerationThrows(r, t) ==
    /\ pc[r] = "generating"
    /\ Catch(r, t)
    /\ UNCHANGED <<detected, analysis, env, locals, catalog>>

\* What the catalog answers for a product: its id, version and description.
ProductBody(p, c) ==
    [id |-> p, version |-> c[p].version, description |-> c[p].description]

\* The action list of the update: one setDescription.
UpdateActions(description) == <<[action |-> "setDescription", en |-> description]>>

\* Mutant of GetReturns: the update is posted at the first version of a
\* product, whatever version the read returned.
GetReturnsFirstVersion(r) ==
    LET p == locals[r].productId[2] IN
    /\ pc[r] = "reading"
    /\ p \in CatalogIds
    /\ pc' = [pc EXCEPT ![r] = "writing"]
    /\ locals' = [locals EXCEPT ![r].currentVersion = 1]
    /\ calls' = [calls EXCEPT ![r] =
            Append(Complete(@, [body |-> ProductBody(p, catalog)]),
                   Call("products.post",
                        [id |-> locals[r].productId,
                         version |-> 1,
                         actions |-> UpdateActions(locals[r].description)]))]
    /\ UNCHANGED <<detected, analysis, env, sent, catalog>>

\* The read resolved: updateProductDescription posts the update at the
\* version it read.
GetReturns(r) ==
    LET p == locals[r].productId[2] IN
    /\ pc[r] = "reading"
    /\ p \in CatalogIds
    /\ pc' = [pc EXCEPT ![r] = "writing"]
    /\ locals' = [locals EXCEPT ![r].currentVersion = catalog[p].version]
    /\ calls' = [calls EXCEPT ![r] =
            Append(Complete(@, [body |-> ProductBody(p, catalog)]),
                   Call("products.post",
                        [id |-> locals[r].productId,
                         version |-> catalog[p].version,
                         actions |-> UpdateActions(locals[r].description)]))]
    /\ UNCHANGED <<detected, analysis, env, sent, catalog>>

\* The body null of a read that found no product, written as the product
\* without id (the products of the catalog have one); its fields are never
\* read.
NullBody == [id |-> "", version |-> 0, description |-> Undefined]

\* Reading `version` of null is a TypeError.
TypeErrorNullVersion == "Cannot read properties of null (reading 'version')"

\* Mutant of GetReturnsNoBody: the version is read with optional chaining
\* and the update is posted without a version.
GetReturnsNoBodyPosts(r) ==
    /\ pc[r] = "reading"
    /\ pc' = [pc EXCEPT ![r] = "writing"]
    /\ calls' = [calls EXCEPT ![r] =
            Append(Complete(@, [body |-> NullBody]),
                   Call("products.post",
                        [id |-> locals[r].productId,
                         version |-> NullBody.version,
                         actions |-> UpdateActions(locals[r].description)]))]
    /\ UNCHANGED <<detected, analysis, env, locals, sent, catalog>>

\* The read resolved without a product body: reading the version of null
\* throws, out of updateProductDescription, into the handler's catch block.
GetReturnsNoBody(r) ==
    /\ pc[r] = "reading"
    /\ pc' = [pc EXCEPT ![r] = "done"]
    /\ calls' = [calls EXCEPT ![r] =
            Unwind(Complete(@, [body |-> NullBody]), Err(TypeErrorNullVersion))]
    /\ sent' = [sent EXCEPT ![r] = Append(@, ErrorResponse(Err(TypeErrorNullVersion)))]
    /\ UNCHANGED <<detected, analysis, env, locals, catalog>>

\* The read failed: the product does not exist, or the request failed.
GetThrows(r, t) ==
    /\ pc[r] = "reading"
    /\ IF locals[r].productId[2] \in CatalogIds
       THEN t \in Thrown
       ELSE t = NotFoundError
    /\ Catch(r, t)
    /\ UNCHANGED <<detected, analysis, env, locals, catalog>>

\* Mutant of PostAccepted: the write is applied, and the handler then fails
\* and answers with an error.
PostAcceptedAnswersError(r) ==
    LET p == locals[r].productId[2]
        write == calls[r][Len(calls[r])].args
        after == [catalog EXCEPT ![p] = [version |-> @.version + 1,
                                         description |-> write.actions[1].en]]
        updateResponse == [body |-> ProductBody(p, after)]
    IN
    /\ pc[r] = "writing"
    /\ catalog[p].version = write.version
    /\ catalog' = after
    /\ pc' = [pc EXCEPT ![r] = "done"]
    /\ calls' = [calls EXCEPT ![r] = Complete(Complete(@, updateResponse), updateResponse)]
    /\ sent' = [sent EXCEPT ![r] = Append(@, ErrorResponse(Err("boom")))]
    /\ UNCHANGED <<detected, analysis, env, locals>>

\* Mutant of PostAccepted: the catalog accepts a write whatever version it
\* carries (the last write wins).
PostAcceptedAnyVersion(r) ==
    LET p == locals[r].productId[2]
        write == calls[r][Len(calls[r])].args
        after == [catalog EXCEPT ![p] = [version |-> @.version + 1,
                                         description |-> write.actions[1].en]]
        updateResponse == [body |-> ProductBody(p, after)]
    IN
    /\ pc[r] = "writing"
    /\ catalog' = after
    /\ pc' = [pc EXCEPT ![r] = "done"]
    /\ calls' = [calls EXCEPT ![r] = Complete(Complete(@, updateResponse), updateResponse)]
    /\ sent' = [sent EXCEPT ![r] = Append(@, SuccessResponse(locals[r], updateResponse))]
    /\ UNCHANGED <<detected, analysis, env, locals>>

\* The catalog accepts the write: the version is current.  It applies the
\* action, bumps the version and answers with the product; the handler
\* sends the success response.
PostAccepted(r) ==
    LET p == locals[r].productId[2]
        write == calls[r][Len(calls[r])].args
        after == [catalog EXCEPT ![p] = [version |-> @.version + 1,
                                         description |-> write.actions[1].en]]
        updateResponse == [body |-> ProductBody(p, after)]
    IN
    /\ pc[r] = "writing"
    /\ catalog[p].version = write.version
    /\ catalog' = after
    /\ pc' = [pc EXCEPT ![r] = "done"]
    /\ calls' = [calls EXCEPT ![r] = Complete(Complete(@, updateResponse), updateResponse)]
    /\ sent' = [sent EXCEPT ![r] = Append(@, SuccessResponse(locals[r], updateResponse))]
    /\ UNCHANGED <<detected, analysis, env, locals>>

\* Mutant of PostThrows: a rejected write is retried from the read.
PostThrowsRetry(r, t) ==
    /\ pc[r] = "writing"
    /\ pc' = [pc EXCEPT ![r] = "reading"]
    /\ calls' = [calls EXCEPT ![r] =
            Append([@ EXCEPT ![Len(@)].out = Threw(t)],
                   Call("products.get", <<locals[r].productId>>))]
    /\ UNCHANGED <<detected, analysis, env, locals, sent, catalog>>

\* Mutant of PostThrows: the failure of the write is swallowed and the
\* request is answered as a success.
PostThrowsAnswersSuccess(r, t) ==
    /\ pc[r] = "writing"
    /\ pc' = [pc EXCEPT ![r] = "done"]
    /\ calls' = [calls EXCEPT ![r] = Unwind(@, t)]
    /\ sent' = [sent EXCEPT ![r] =
            Append(@, SuccessResponse(locals[r], [body |-> NullBody]))]
    /\ UNCHANGED <<detected, analysis, env, locals, catalog>>

\* The catalog rejects the write: on a stale version with a conflict, or
\* for any other reason.
PostThrows(r, t) ==
    LET p == locals[r].productId[2]
        write == calls[r][Len(calls[r])].args
    IN
    /\ pc[r] = "writing"
    /\ IF catalog[p].version = write.version
       THEN t \in Thrown
       ELSE t = ConflictError
    /\ Catch(r, t)
    /\ UNCHANGED <<detected, analysis, env, locals, catalog>>

\* ----------------------------------------------------------- specification
\* One request, any envelope.
Next ==
    \/ Arrive(1)
    \/ \E r \in Reqs, a \in Analyses : AnalysisReturns(r, a)
    \/ \E r \in Reqs, t \in Thrown : AnalysisThrows(r, t)
    \/ \E r \in Reqs, d \in Descriptions : GenerationReturns(r, d)
    \/ \E r \in Reqs, t \in Thrown : GenerationThrows(r, t)
    \/ \E r \in Reqs : GetReturns(r)
    \/ \E r \in Reqs : GetReturnsNoBody(r)
    \/ \E r \in Reqs, t \in Thrown \cup {NotFoundError} : GetThrows(r, t)
    \/ \E r \in Reqs : PostAccepted(r)
    \/ \E r \in Reqs, t \in Thrown \cup {ConflictError} : PostThrows(r, t)

Spec == Init /\ [][Next]_vars

\* Concurrent requests: every slot receives a request, the awaits of the
\* requests in flight resolve in any order.  The envelopes are a few of
\* Envelopes, the failure of a collaborator is one Error.
EventFor(p, u, flag) ==
    [SampleEvent EXCEPT !.id = JStr(p),
                        !.images.items = <<[url |-> JStr(u)]>>,
                        !.attributes.items = <<[name |-> FlagKey, value |-> JStr(flag)]>>]

EnvelopeOf(ev) ==
    [hasMessage |-> TRUE,
     data |-> [present |-> TRUE,
               text |-> [pad |-> FALSE, core |-> [kind |-> "object", event |-> ev]]]]

ConcEnvelopes ==
    {EnvelopeOf(EventFor("p1", "u1", "true")),
     EnvelopeOf(EventFor("p1", "u2", "true")),
     EnvelopeOf(EventFor("p2", "u1", "true")),
     EnvelopeOf(EventFor("p1", "u1", "false")),
     [hasMessage |-> TRUE, data |-> NoData]}

ConcThrown == {Err("boom")}
ConcDescriptions == {JStr("d1")}

\* The requests take the slots in the order of their arrival.
ArriveConc(r) ==
    /\ pc[r] = "idle"
    /\ \A q \in Reqs : q < r => pc[q] # "idle"
    /\ \E e \in ConcEnvelopes : Receive(r, e)

NextConc ==
    \/ \E r \in Reqs : ArriveConc(r)
    \/ \E r \in Reqs, a \in Analyses : AnalysisReturns(r, a)
    \/ \E r \in Reqs, t \in ConcThrown : AnalysisThrows(r, t)
    \/ \E r \in Reqs, d \in ConcDescriptions : GenerationReturns(r, d)
    \/ \E r \in Reqs, t \in ConcThrown : GenerationThrows(r, t)
    \/ \E r \in Reqs : GetReturns(r)
    \/ \E r \in Reqs : GetReturnsNoBody(r)
    \/ \E r \in Reqs, t \in ConcThrown \cup {NotFoundError} : GetThrows(r, t)
    \/ \E r \in Reqs : PostAccepted(r)
    \/ \E r \in Reqs, t \in ConcThrown \cup {ConflictError} : PostThrows(r, t)

SpecConc == Init /\ [][NextConc]_vars

\* The image analysis function on any answer of the annotator.
InitAnalysis ==
    /\ HandlerInit
    /\ detected \in VisionResults
    /\ analysis = <<>>

\* annotateImage resolved with `detected`: getImageData returns.
GetImageDataReturns ==
    /\ analysis = <<>>
    /\ analysis' = <<getImageData(detected)>>
    /\ UNCHANGED <<pc, env, locals, calls, sent, catalog, detected>>

NextAnalysis == GetImageDataReturns

SpecAnalysis == InitAnalysis /\ [][NextAnalysis]_vars

\* ------------------------------------------------- vocabulary of the claims
\* The request was received and its payload parsed to a JSON object.
Parsed(r) ==
    /\ pc[r] # "idle"
    /\ env[r].hasMessage
    /\ env[r].data.present
    /\ env[r].data.text.core.kind = "object"

EventOf(r) == env[r].data.text.core.event

\* A value is present: a non-empty string.
Present(v) == v[1] = "string" /\ v[2] # ""

\* productProjection.id and the url of the first image, undefined when any
\* step of the path is missing.
EventProductId(ev) == IF ev.hasProjection THEN ev.id ELSE Undefined
EventImageUrl(ev) ==
    IF ev.hasProjection /\ ev.hasMasterVariant /\ ev.images.present
       /\ ev.images.items # <<>>
    THEN Head(ev.images.items).url
    ELSE Undefined
EventAttributes(ev) ==
    IF ev.hasProjection /\ ev.hasMasterVariant THEN ev.attributes.items ELSE <<>>

\* The value of the first attribute named `key`, undefined when there is none.
FirstNamed(attributes, key) ==
    LET Named(a) == a.name = key
        named == SelectSeq(attributes, Named)
    IN IF named = <<>> THEN Undefined ELSE Head(named).value

\* The enrichment flag of the event, read from the attribute the
\* specification names.
EnrichmentFlag(ev) == FirstNamed(EventAttributes(ev), "generateDescription")

\* The calls of request r to the collaborator fn, and the only such call.
CallsTo(r, fn) == {i \in 1..Len(calls[r]) : calls[r][i].fn = fn}
TheCall(r, fn) == calls[r][CHOOSE i \in CallsTo(r, fn) : TRUE]
Collaborators == {"productAnalysis", "generateProductDescription", "updateProductDescription"}
NoCollaboratorCalled(r) == calls[r] = <<>>
NoneThrew(r) == \A i \in 1..Len(calls[r]) : calls[r][i].out.kind # "throw"

\* Collaborator fn was called exactly once, and that call threw an Error.
FailedWithError(r, fn) ==
    /\ Cardinality(CallsTo(r, fn)) = 1
    /\ TheCall(r, fn).out.kind = "throw"
    /\ IsError(TheCall(r, fn).out.val)

\* The only response of r is the internal-error response with these details.
AnsweredInternalError(r, details) ==
    sent[r] = <<[status |-> 500,
                 body |-> [error |-> MsgInternal, details |-> details]]>>

\* ------------------------------------------------------------------ claims

\* The event of r enables enrichment: both identifiers present, flag "true".
Enabled(r) ==
    /\ Parsed(r)
    /\ Present(EventProductId(EventOf(r)))
    /\ Present(EventImageUrl(EventOf(r)))
    /\ EnrichmentFlag(EventOf(r)) = JStr("true")

\* C1: for an event with flag "true", productId and imageUrl present, when
\* no collaborator fails, the finished request has called Image Analysis
\* exactly once with imageUrl, Text Generation exactly once with exactly
\* what Image Analysis returned, Persistence exactly once with productId and
\* exactly the text Text Generation returned, and has sent one response:
\* status 200 with productId, imageUrl, description, productAnalysis and
\* commerceToolsUpdate (the body of the persistence result) as returned.
C1_SuccessPipeline ==
    \A r \in Reqs :
        (Enabled(r) /\ pc[r] = "done" /\ NoneThrew(r)) =>
            LET id == EventProductId(EventOf(r))
                url == EventImageUrl(EventOf(r))
            IN
            /\ \A fn \in Collaborators : Cardinality(CallsTo(r, fn)) = 1
            /\ TheCall(r, "productAnalysis").args = <<url>>
            /\ TheCall(r, "productAnalysis").out.kind = "ok"
            /\ TheCall(r, "generateProductDescription").args
                   = <<TheCall(r, "productAnalysis").out.val>>
            /\ TheCall(r, "generateProductDescription").out.kind = "ok"
            /\ TheCall(r, "updateProductDescription").args
                   = <<id, TheCall(r, "generateProductDescription").out.val>>
            /\ TheCall(r, "updateProductDescription").out.kind = "ok"
            /\ sent[r] =
                 <<[status |-> 200,
                    body |-> [productId |-> id,
                              imageUrl |-> url,
                              description |-> TheCall(r, "generateProductDescription").out.val,
                              productAnalysis |-> TheCall(r, "productAnalysis").out.val,
                              commerceToolsUpdate |-> TheCall(r, "updateProductDescription").out.val.body]]>>

C1_Witness ==
    \E r \in Reqs :
        /\ Enabled(r) /\ pc[r] = "done" /\ NoneThrew(r)
        /\ Cardinality(CallsTo(r, "updateProductDescription")) = 1
        /\ TheCall(r, "generateProductDescription").out.val = JStr("d2")
        /\ Len(sent[r]) = 1 /\ sent[r][1].status = 200

\* C2: for an event whose attributes contain {name: 'gen-description',
\* value: 'true'} and that carries a product id and a first image url, the
\* handler calls productAnalysis with the image url and, when no collaborator
\* fails, answers 200 with the body {productId, imageUrl, description,
\* productAnalysis, commerceToolsUpdate}, not with the skip acknowledgement.
C2_GenDescriptionKeyEnables ==
    \A r \in Reqs :
        LET ev == EventOf(r)
            attrs == EventAttributes(ev)
        IN
        ( /\ Parsed(r)
          /\ Present(EventProductId(ev))
          /\ Present(EventImageUrl(ev))
          /\ \E i \in 1..Len(attrs) :
                attrs[i] = [name |-> "gen-description", value |-> JStr("true")] )
        =>
        /\ \E i \in CallsTo(r, "productAnalysis") :
              calls[r][i].args = <<EventImageUrl(ev)>>
        /\ (pc[r] = "done" /\ NoneThrew(r)) =>
              /\ Len(sent[r]) = 1
              /\ sent[r][1].status = 200
              /\ DOMAIN sent[r][1].body =
                    {"productId", "imageUrl", "description", "productAnalysis",
                     "commerceToolsUpdate"}

\* C3: if Image Analysis fails with an Error, Text Generation and
\* Persistence are never invoked in that request, and the response is 500
\* with the fixed internal-error message and details equal to the message of
\* the Error thrown.
C3_AnalysisFailure ==
    \A r \in Reqs :
        FailedWithError(r, "productAnalysis") =>
            /\ CallsTo(r, "generateProductDescription") = {}
            /\ CallsTo(r, "updateProductDescription") = {}
            /\ Len(calls[r]) = 1
            /\ pc[r] = "done"
            /\ AnsweredInternalError(r, TheCall(r, "productAnalysis").out.val[2])

C3_Witness ==
    \E r \in Reqs :
        /\ FailedWithError(r, "productAnalysis")
        /\ TheCall(r, "productAnalysis").out.val = Err("quota")
        /\ Len(sent[r]) = 1

\* C4: if Image Analysis succeeds and Text Generation then fails with an
\* Error, Persistence is never invoked in that request, the catalog is
\* neither read nor written, and the response is 500 with details equal to
\* the message of the Error thrown.
C4_GenerationFailure ==
    \A r \in Reqs :
        FailedWithError(r, "generateProductDescription") =>
            /\ TheCall(r, "productAnalysis").out.kind = "ok"
            /\ CallsTo(r, "updateProductDescription") = {}
            /\ CallsTo(r, "products.get") = {}
            /\ CallsTo(r, "products.post") = {}
            /\ pc[r] = "done"
            /\ AnsweredInternalError(r, TheCall(r, "generateProductDescription").out.val[2])

C4_Witness ==
    \E r \in Reqs :
        /\ FailedWithError(r, "generateProductDescription")
        /\ TheCall(r, "productAnalysis").out.kind = "ok"
        /\ TheCall(r, "generateProductDescription").out.val = Err("boom")
        /\ Len(sent[r]) = 1

\* C5: if Image Analysis and Text Generation succeed and Persistence then
\* fails with an Error, the response is 500 with details equal to the message
\* of the Error thrown, and the request makes no further call: each
\* collaborator was called once, the catalog was read once and written at
\* most once, and the catalog call at which Persistence failed (a call that
\* threw, or the read that returned no product) is the last call of the
\* request.
C5_PersistenceFailure ==
    \A r \in Reqs :
        FailedWithError(r, "updateProductDescription") =>
            /\ TheCall(r, "productAnalysis").out.kind = "ok"
            /\ TheCall(r, "generateProductDescription").out.kind = "ok"
            /\ \A fn \in Collaborators : Cardinality(CallsTo(r, fn)) = 1
            /\ Cardinality(CallsTo(r, "products.get")) = 1
            /\ Cardinality(CallsTo(r, "products.post")) <= 1
            /\ calls[r][Len(calls[r])].fn \in {"products.get", "products.post"}
            /\ \/ calls[r][Len(calls[r])].out.kind = "throw"
               \/ /\ calls[r][Len(calls[r])].fn = "products.get"
                  /\ calls[r][Len(calls[r])].out = Returned([body |-> NullBody])
            /\ pc[r] = "done"
            /\ AnsweredInternalError(r, TheCall(r, "updateProductDescription").out.val[2])

C5_Witness ==
    \E r \in Reqs :
        /\ FailedWithError(r, "updateProductDescription")
        /\ CallsTo(r, "products.post") # {}
        /\ Len(sent[r]) = 1

\* C6: for every envelope whose message.data is absent or the empty string,
\* the response is 400 with the fixed no-data message and no details field,
\* and no collaborator is invoked.
C6_MissingPayload ==
    \A r \in Reqs :
        ( /\ pc[r] # "idle"
          /\ env[r].hasMessage
          /\ (~env[r].data.present \/ env[r].data.text = EmptyText) )
        =>
        /\ sent[r] = <<[status |-> 400, body |-> [error |-> MsgNoData]]>>
        /\ NoCollaboratorCalled(r)
        /\ pc[r] = "done"

C6_Witness ==
    \E r \in Reqs :
        /\ pc[r] # "idle" /\ env[r].hasMessage /\ env[r].data.present
        /\ env[r].data.text = EmptyText
        /\ Len(sent[r]) = 1

\* C7: for every payload that decodes to a non-empty text that is not JSON,
\* the response is 500 with the fixed internal-error message and no
\* collaborator is invoked.
C7_MalformedPayload ==
    \A r \in Reqs :
        ( /\ pc[r] # "idle"
          /\ env[r].hasMessage
          /\ env[r].data.present
          /\ env[r].data.text.core.kind = "garbage" )
        =>
        /\ Len(sent[r]) = 1
        /\ sent[r][1].status = 500
        /\ sent[r][1].body.error = MsgInternal
        /\ NoCollaboratorCalled(r)
        /\ pc[r] = "done"

C7_Witness ==
    \E r \in Reqs :
        /\ pc[r] # "idle" /\ env[r].hasMessage /\ env[r].data.present
        /\ env[r].data.text.core.kind = "garbage"
        /\ env[r].data.text.pad
        /\ Len(sent[r]) = 1

\* C8: for every event with productId and imageUrl present whose enrichment
\* flag is anything other than the string "true" (absent, boolean false,
\* string "false", boolean true), no collaborator is invoked and the response
\* is 200 with the not-enabled message, productId and imageUrl.
C8_SkipWhenNotEnabled ==
    \A r \in Reqs :
        LET ev == EventOf(r) IN
        ( /\ Parsed(r)
          /\ Present(EventProductId(ev))
          /\ Present(EventImageUrl(ev))
          /\ EnrichmentFlag(ev) # JStr("true") )
        =>
        /\ NoCollaboratorCalled(r)
        /\ pc[r] = "done"
        /\ sent[r] = <<[status |-> 200,
                         body |-> [message |-> MsgNotEnabled,
                                   productId |-> EventProductId(ev),
                                   imageUrl |-> EventImageUrl(ev)]]>>

C8_Witness ==
    \E r \in Reqs :
        /\ Parsed(r)
        /\ Present(EventProductId(EventOf(r)))
        /\ Present(EventImageUrl(EventOf(r)))
        /\ EnrichmentFlag(EventOf(r)) = JTrue
        /\ Len(EventAttributes(EventOf(r))) = 2
        /\ Len(sent[r]) = 1

\* C9: for every parsed event in which productId or imageUrl is absent, no
\* collaborator is invoked and the handler sends an accepted (status 200)
\* response that carries no description, analysis or update data.
C9_NoOpIsAnswered ==
    \A r \in Reqs :
        LET ev == EventOf(r) IN
        ( /\ Parsed(r)
          /\ (~Present(EventProductId(ev)) \/ ~Present(EventImageUrl(ev))) )
        =>
        /\ NoCollaboratorCalled(r)
        /\ Len(sent[r]) = 1
        /\ sent[r][1].status = 200
        /\ DOMAIN sent[r][1].body
              \cap {"description", "productAnalysis", "commerceToolsUpdate"} = {}

\* C10: there is no path on which the handler finishes without having sent
\* a response: a request whose handler has returned has been answered.
C10_FinishedIsAnswered ==
    \A r \in Reqs : pc[r] = "done" => Len(sent[r]) >= 1

\* The calls of one request in the only order the pipeline allows.
CallOrder ==
    <<"productAnalysis", "generateProductDescription", "model.generateContent",
      "updateProductDescription", "products.get", "products.post">>

\* The collaborator calls of r that have not completed.
InFlight(r) ==
    {i \in 1..Len(calls[r]) :
        calls[r][i].fn \in Collaborators /\ calls[r][i].out.kind = "pending"}

\* C11: within one request each of Image Analysis, Text Generation and
\* Persistence is invoked at most once; Text Generation only after Image
\* Analysis returned successfully; Persistence only after Text Generation
\* returned successfully; no two collaborator calls are in flight at once; and
\* no stage is entered again: the calls follow the one order of the pipeline.
C11_SequentialNoRetry ==
    \A r \in Reqs :
        /\ \A fn \in Collaborators : Cardinality(CallsTo(r, fn)) <= 1
        /\ Len(calls[r]) <= Len(CallOrder)
        /\ \A i \in 1..Len(calls[r]) : calls[r][i].fn = CallOrder[i]
        /\ CallsTo(r, "generateProductDescription") # {} =>
              /\ CallsTo(r, "productAnalysis") # {}
              /\ TheCall(r, "productAnalysis").out.kind = "ok"
        /\ CallsTo(r, "updateProductDescription") # {} =>
              /\ CallsTo(r, "generateProductDescription") # {}
              /\ TheCall(r, "generateProductDescription").out.kind = "ok"
        /\ Cardinality(InFlight(r)) <= 1

C11_Witness ==
    \E r \in Reqs :
        /\ pc[r] = "writing"
        /\ Len(calls[r]) = 6
        /\ InFlight(r) = CallsTo(r, "updateProductDescription")

\* The outcomes of a request, told from its envelope and its calls.
MissingPayload(r) ==
    /\ pc[r] # "idle" /\ env[r].hasMessage
    /\ (~env[r].data.present \/ env[r].data.text.core.kind = "empty")
ParseFailure(r) ==
    /\ pc[r] # "idle" /\ env[r].hasMessage /\ env[r].data.present
    /\ env[r].data.text.core.kind = "garbage"
\* A failure of the runtime outside the parser and the pipeline: a body
\* without message, or the JSON text null.
OtherFailure(r) ==
    /\ pc[r] # "idle"
    /\ \/ ~env[r].hasMessage
       \/ env[r].data.present /\ env[r].data.text.core.kind = "null"
StageFailure(r) == ~NoneThrew(r)
NoOp(r) ==
    /\ Parsed(r)
    /\ (~Present(EventProductId(EventOf(r))) \/ ~Present(EventImageUrl(EventOf(r))))
Skipped(r) ==
    /\ Parsed(r)
    /\ Present(EventProductId(EventOf(r)))
    /\ Present(EventImageUrl(EventOf(r)))
    /\ EnrichmentFlag(EventOf(r)) # JStr("true")
PipelineSuccess(r) == Enabled(r) /\ pc[r] = "done" /\ NoneThrew(r)

AnsweredWith(r, status) == Len(sent[r]) = 1 /\ sent[r][1].status = status

\* C12: every response has status 200, 400 or 500: 200 exactly for the
\* no-op, skip and pipeline-success outcomes, 400 exactly for a missing
\* payload, 500 exactly for a JSON parse failure or a failure of a pipeline
\* stage (or another failure of the handler).
C12_StatusByOutcome ==
    \A r \in Reqs :
        /\ \A i \in 1..Len(sent[r]) : sent[r][i].status \in {200, 400, 500}
        /\ pc[r] = "done" =>
              /\ (NoOp(r) \/ Skipped(r) \/ PipelineSuccess(r)) => AnsweredWith(r, 200)
              /\ MissingPayload(r) => AnsweredWith(r, 400)
              /\ (ParseFailure(r) \/ StageFailure(r)) => AnsweredWith(r, 500)
              /\ AnsweredWith(r, 200) => (NoOp(r) \/ Skipped(r) \/ PipelineSuccess(r))
              /\ AnsweredWith(r, 400) => MissingPayload(r)
              /\ AnsweredWith(r, 500) =>
                    (ParseFailure(r) \/ StageFailure(r) \/ OtherFailure(r))

\* The control points of the handler; it has no other way to end than "done".
ControlPoints == {"idle", "analyzing", "generating", "reading", "writing", "done"}

\* C13: at most one response is sent per request, and no failure raised
\* while handling it (parse failure, runtime failure or collaborator failure,
\* an Error or not) escapes the handler: each is caught and mapped to exactly
\* one error response, and the handler returns.
C13_SingleResponseNoEscape ==
    \A r \in Reqs :
        /\ Len(sent[r]) <= 1
        /\ pc[r] \in ControlPoints
        /\ (ParseFailure(r) \/ OtherFailure(r) \/ StageFailure(r)) =>
              /\ pc[r] = "done"
              /\ AnsweredWith(r, 500)
              /\ sent[r][1].body.error \in {MsgInternal, MsgUnexpected}

C13_Witness ==
    \E r \in Reqs :
        /\ \E i \in 1..Len(calls[r]) : calls[r][i].out = Threw(NonError)
        /\ pc[r] = "done"
        /\ sent[r] = <<[status |-> 500, body |-> [error |-> MsgUnexpected]]>>

\* ------------------------------------------------------ concurrent requests
\* What the calls of request r returned or threw, in the order of the calls.
OwnResults(r) == [i \in 1..Len(calls[r]) |-> calls[r][i].out]

\* The calls of request r without their results.
OwnCalls(r) == [i \in 1..Len(calls[r]) |-> [fn |-> calls[r][i].fn, args |-> calls[r][i].args]]

\* The request with envelope e handled alone, its calls having had the
\* results outs so far: the calls it has made and the responses it has sent.
Alone(e, outs) ==
    LET o == PostSync(e)
        productId == o.locals.productId
        imageUrl == o.locals.imageUrl
        Ok(i) == i <= Len(outs) /\ outs[i].kind = "ok"
        thrown == {i \in 1..Len(outs) : outs[i].kind = "throw"}
        analysed == Ok(1)
        generated == analysed /\ Ok(3)
        read == generated /\ Ok(5) /\ outs[5].val.body # NullBody
        written == read /\ Ok(6)
        c1 == <<[fn |-> "productAnalysis", args |-> <<imageUrl>>]>>
        c23 == IF analysed
               THEN <<[fn |-> "generateProductDescription", args |-> <<outs[1].val>>],
                      [fn |-> "model.generateContent", args |-> <<Prompt(outs[1].val)>>]>>
               ELSE <<>>
        c45 == IF generated
               THEN <<[fn |-> "updateProductDescription", args |-> <<productId, outs[3].val>>],
                      [fn |-> "products.get", args |-> <<productId>>]>>
               ELSE <<>>
        c6 == IF read
              THEN <<[fn |-> "products.post",
                      args |-> [id |-> productId,
                                version |-> outs[5].val.body.version,
                                actions |-> <<[action |-> "setDescription",
                                               en |-> outs[3].val]>>]]>>
              ELSE <<>>
    IN IF o.pc = "done"
       THEN [calls |-> <<>>, sent |-> o.sent]
       ELSE [calls |-> c1 \o c23 \o c45 \o c6,
             sent |->
                IF thrown # {}
                THEN <<ErrorResponse(outs[CHOOSE i \in thrown : TRUE].val)>>
                ELSE IF written
                THEN <<[status |-> 200,
                        body |-> [productId |-> productId, imageUrl |-> imageUrl,
                                  description |-> outs[3].val,
                                  productAnalysis |-> outs[1].val,
                                  commerceToolsUpdate |-> outs[6].val.body]]>>
                ELSE <<>>]

\* C14: with any number of requests in flight and their collaborator calls
\* interleaved in any order, the calls each request has made and the
\* responses it has sent are those of the same request handled alone: a
\* function of its own envelope and of the results of its own calls.
C14_NoSharedState ==
    \A r \in Reqs :
        pc[r] # "idle" =>
            /\ OwnCalls(r) = Alone(env[r], OwnResults(r)).calls
            /\ sent[r] = Alone(env[r], OwnResults(r)).sent

\* Two requests with different image urls got different analyses while both
\* were in flight, and both have been answered: one with 200, the other
\* with the failure of its own write.
C14_Witness ==
    \E r, q \in Reqs :
        /\ r # q
        /\ pc[r] = "done" /\ pc[q] = "done"
        /\ locals[r].imageUrl # locals[q].imageUrl
        /\ locals[r].imageData # locals[q].imageData
        /\ AnsweredWith(r, 200) /\ PipelineSuccess(r)
        /\ AnsweredWith(q, 500)
        /\ Len(calls[q]) = 6
        /\ calls[q][6].out = Threw(ConflictError)

\* The writes issued so far: request and position of each products.post call.
Writes == {w \in Reqs \X (1..6) : w[2] <= Len(calls[w[1]]) /\ calls[w[1]][w[2]].fn = "products.post"}
WriteOf(w) == calls[w[1]][w[2]]
Accepted(w) == WriteOf(w).out.kind = "ok"
Rejected(w) == WriteOf(w).out.kind = "throw"
AcceptedFor(p) == {w \in Writes : Accepted(w) /\ WriteOf(w).args.id = JStr(p)}

\* C15: the catalog being an optimistic-concurrency store, of two writes of
\* different requests to the same product at the same version at most one
\* is accepted; a request whose write was rejected has read once and
\* written once, and has ended with a status 500 response; and every
\* accepted write carried the version that was current when it was accepted
\* (the accepted writes of a product carry the versions 1, 2, ... without
\* repetition, each answered with the next version).
C15_OptimisticWrite ==
    /\ \A w1, w2 \in Writes :
          /\ w1[1] # w2[1]
          /\ WriteOf(w1).args.id = WriteOf(w2).args.id
          /\ WriteOf(w1).args.version = WriteOf(w2).args.version
          => ~(Accepted(w1) /\ Accepted(w2))
    /\ \A w \in Writes :
          Rejected(w) =>
              /\ Cardinality(CallsTo(w[1], "products.get")) = 1
              /\ Cardinality(CallsTo(w[1], "products.post")) = 1
              /\ pc[w[1]] = "done"
              /\ AnsweredWith(w[1], 500)
    /\ \A p \in CatalogIds :
          /\ catalog[p].version = 1 + Cardinality(AcceptedFor(p))
          /\ \A w \in AcceptedFor(p) :
                /\ WriteOf(w).args.version \in 1..Cardinality(AcceptedFor(p))
                /\ WriteOf(w).out.val.body.version = WriteOf(w).args.version + 1
          /\ \A w1, w2 \in AcceptedFor(p) :
                w1 # w2 => WriteOf(w1).args.version # WriteOf(w2).args.version

\* Two requests read version 1 of the same product before either wrote: one
\* write was accepted, the other was rejected as a conflict and its request
\* ended with 500 after one read and one write.
C15_Witness ==
    \E w1, w2 \in Writes :
        /\ w1[1] # w2[1]
        /\ WriteOf(w1).args.id = WriteOf(w2).args.id
        /\ WriteOf(w1).args.version = 1 /\ WriteOf(w2).args.version = 1
        /\ Accepted(w1)
        /\ WriteOf(w2).out = Threw(ConflictError)
        /\ Cardinality(CallsTo(w2[1], "products.get")) = 1
        /\ AnsweredInternalError(w2[1], ConflictError[2])
        /\ catalog[WriteOf(w1).args.id[2]].version = 2

\* The calls of updateProductDescription (Persist) made so far, as request
\* and position in the call log of the request.
Persists ==
    {u \in Reqs \X (1..6) :
        u[2] <= Len(calls[u[1]]) /\ calls[u[1]][u[2]].fn = "updateProductDescription"}

\* The calls a Persist call has made: those after it in the log of its
\* request (it is the last stage of the handler).
ReadsOf(u) == {i \in CallsTo(u[1], "products.get") : i > u[2]}
WritesOf(u) == {i \in CallsTo(u[1], "products.post") : i > u[2]}

\* C16: Persist(productId, description) reads the product exactly once and
\* writes at most once; the write is issued after the read has returned a
\* product, carries the version that read returned and the same productId,
\* and consists of the one action that sets the description to the given
\* text; when the write succeeds, Persist returns the write's response.
C16_ReadThenWrite ==
    /\ \A r \in Reqs :
          \A i \in CallsTo(r, "products.get") \cup CallsTo(r, "products.post") :
              \E u \in Persists : u[1] = r /\ u[2] < i
    /\ \A u \in Persists :
        LET r == u[1]
            persist == calls[r][u[2]]
        IN
        /\ ReadsOf(u) = {u[2] + 1}
        /\ calls[r][u[2] + 1].args = <<persist.args[1]>>
        /\ WritesOf(u) \subseteq {u[2] + 2}
        /\ \A i \in WritesOf(u) :
              LET read == calls[r][i - 1]
                  write == calls[r][i]
              IN
              /\ read.out.kind = "ok"
              /\ read.out.val.body # NullBody
              /\ write.args.version = read.out.val.body.version
              /\ write.args.id = persist.args[1]
              /\ write.args.actions =
                    <<[action |-> "setDescription", en |-> persist.args[2]]>>
              /\ write.out.kind = "ok" => persist.out = write.out
        /\ persist.out.kind = "ok" =>
              \E i \in WritesOf(u) : calls[r][i].out = persist.out

\* A Persist call read version 2 (another request had written before),
\* wrote at version 2, and returned the response of its write.
C16_Witness ==
    \E u \in Persists :
        LET r == u[1] IN
        /\ WritesOf(u) = {u[2] + 2}
        /\ calls[r][u[2] + 1].out.val.body.version = 2
        /\ calls[r][u[2] + 2].args.version = 2
        /\ calls[r][u[2] + 2].out.kind = "ok"
        /\ calls[r][u[2]].out = calls[r][u[2] + 2].out
        /\ calls[r][u[2]].out.val.body.version = 3

\* The read of a Persist call, and whether it found the product.
ReadOf(u) == calls[u[1]][u[2] + 1]
ReadFailed(u) == ReadOf(u).out.kind = "throw"
ReadNoBody(u) == ReadOf(u).out.kind = "ok" /\ ReadOf(u).out.val.body = NullBody

\* C17: when the read of Persist fails or returns no product body, Persist
\* fails with an error (the error of the read, or the TypeError of reading
\* the version of nothing) without issuing the write; when the write is
\* rejected, Persist fails with the error of the write; in none of these
\* cases does Persist return a result.
C17_PersistFails ==
    \A u \in Persists :
        LET r == u[1]
            persist == calls[r][u[2]]
        IN
        /\ ReadFailed(u) =>
              /\ persist.out = ReadOf(u).out
              /\ WritesOf(u) = {}
        /\ ReadNoBody(u) =>
              /\ persist.out = Threw(Err(TypeErrorNullVersion))
              /\ WritesOf(u) = {}
        /\ \A i \in WritesOf(u) :
              calls[r][i].out.kind = "throw" => persist.out = calls[r][i].out
        /\ (ReadFailed(u) \/ ReadNoBody(u)
              \/ \E i \in WritesOf(u) : calls[r][i].out.kind = "throw")
             => persist.out.kind = "throw"

\* One Persist call got no product body from its read and failed without
\* writing; another had its write rejected and failed with that error.
C17_Witness ==
    \E u, v \in Persists :
        /\ ReadNoBody(u)
        /\ WritesOf(u) = {}
        /\ calls[u[1]][u[2]].out.kind = "throw"
        /\ WritesOf(v) # {}
        /\ \E i \in WritesOf(v) :
              /\ calls[v[1]][i].out.kind = "throw"
              /\ calls[v[1]][v[2]].out = calls[v[1]][i].out

\* The model answered the call i of request r with a text that is not usable.
NoUsableText(r, i) ==
    /\ calls[r][i].fn = "model.generateContent"
    /\ calls[r][i].out.kind = "ok"
    /\ ~Truthy(calls[r][i].out.val)

\* C18: whenever the model returns no usable text (a missing or empty
\* text), Text Generation fails with an error; it never returns an empty
\* description, and Persistence is never called with an empty description.
C18_NoEmptyDescription ==
    \A r \in Reqs :
        \A i \in 1..Len(calls[r]) :
            /\ NoUsableText(r, i) =>
                  /\ calls[r][i - 1].fn = "generateProductDescription"
                  /\ calls[r][i - 1].out.kind = "throw"
                  /\ IsError(calls[r][i - 1].out.val)
            /\ calls[r][i].fn = "generateProductDescription"
                  /\ calls[r][i].out.kind = "ok"
                  => Truthy(calls[r][i].out.val)
            /\ calls[r][i].fn = "updateProductDescription"
                  => Truthy(calls[r][i].args[2])

\* ----------------------------------------------------------- image analysis
\* A detector returned nothing: its annotation is absent or an empty list.
Nothing(annotation) == ~annotation.present \/ annotation.items = <<>>

\* getImageData has returned its ImageAnalysis.
Analysed == analysis # <<>>

\* C19: each of the five fields of the ImageAnalysis equals its fallback
\* whenever its detector returned nothing (annotation absent or empty):
\* labels 'No labels detected', objects 'No objects detected', colors
\* ['No colors detected'], detectedText 'No text detected', webEntities
\* 'No web entities detected'; the colors field is never an empty list.
C19_Fallbacks ==
    Analysed =>
        LET a == analysis[1] IN
        /\ Nothing(detected.labelAnnotations) => a.labels = Lit("No labels detected")
        /\ Nothing(detected.localizedObjectAnnotations) => a.objects = Lit("No objects detected")
        /\ Nothing(detected.colors) => a.colors = <<Lit("No colors detected")>>
        /\ Nothing(detected.textAnnotations) => a.detectedText = Lit("No text detected")
        /\ Nothing(detected.webEntities) => a.webEntities = Lit("No web entities detected")
        /\ a.colors # <<>>

\* The smaller of two numbers.
Min(a, b) == IF a < b THEN a ELSE b

\* The descriptions (names, for objects) of the first k entries of a list.
FirstDescriptions(items, k) == [i \in 1..Min(k, Len(items)) |-> items[i].description]
FirstNames(items, k) == [i \in 1..Min(k, Len(items)) |-> items[i].name]

\* C20: the colors list has at most 3 entries, the first 3 dominant colors
\* in detector order; the web-entities field is built from the first 5 web
\* entities at most, in detector order; labels and objects are built from
\* all the entries of their detectors, however many.
C20_Caps ==
    Analysed =>
        LET a == analysis[1]
            colors == detected.colors.items
            web == detected.webEntities.items
            labels == detected.labelAnnotations.items
            objects == detected.localizedObjectAnnotations.items
        IN
        /\ Len(a.colors) <= 3
        /\ detected.colors.present =>
              /\ Len(a.colors) = Min(3, Len(colors))
              /\ \A i \in 1..Len(a.colors) : a.colors[i] = FormatColor(colors[i])
        /\ Len(a.webEntities.parts) <= 5
        /\ ~Nothing(detected.webEntities) =>
              a.webEntities = Join(FirstDescriptions(web, 5))
        /\ ~Nothing(detected.labelAnnotations) =>
              a.labels = Join(FirstDescriptions(labels, Len(labels)))
        /\ ~Nothing(detected.localizedObjectAnnotations) =>
              a.objects = Join(FirstNames(objects, Len(objects)))

\* The detectors returned more than 3 colors, more than 5 web entities, and
\* more than 5 labels and objects: colors and web entities were cut, labels
\* and objects were not.
C20_Witness ==
    /\ Analysed
    /\ Len(detected.colors.items) > 3
    /\ Len(detected.webEntities.items) > 5
    /\ Len(analysis[1].colors) = 3
    /\ Len(analysis[1].webEntities.parts) = 5
    /\ Len(analysis[1].labels.parts) > 5
    /\ Len(analysis[1].objects.parts) > 5

\* ------------------------------------------------------------ error mapping
\* The values thrown while request r was handled: by the parser, and by the
\* calls of r.
ThrownIn(r) ==
    {calls[r][i].out.val : i \in {j \in 1..Len(calls[r]) : calls[r][j].out.kind = "throw"}}
    \cup (IF ParseFailure(r) THEN {Err(SyntaxErrorMsg)} ELSE {})

\* C21: when a collaborator or the parser throws a value that is no Error,
\* the response is status 500 with the fixed generic message and without a
\* `details` field; when it throws an Error, the response is status 500
\* with the fixed internal-error message and `details` equal to the message
\* of that Error.
C21_ErrorMapping ==
    \A r \in Reqs :
        \A t \in ThrownIn(r) :
            /\ pc[r] = "done"
            /\ Len(sent[r]) = 1
            /\ sent[r][1].status = 500
            /\ IsError(t) =>
                  /\ DOMAIN sent[r][1].body = {"error", "details"}
                  /\ sent[r][1].body.error = MsgInternal
                  /\ sent[r][1].body.details = t[2]
            /\ ~IsError(t) =>
                  /\ DOMAIN sent[r][1].body = {"error"}
                  /\ sent[r][1].body.error = MsgUnexpected

\* The model threw a value that is no Error, and the request was answered
\* with the generic message alone.
C21_Witness ==
    \E r \in Reqs :
        /\ Len(calls[r]) = 3
        /\ calls[r][3].fn = "model.generateContent"
        /\ calls[r][3].out = Threw(NonError)
        /\ Len(sent[r]) = 1
        /\ DOMAIN sent[r][1].body = {"error"}

\* ------------------------------------------------------------------ the gate
\* A response is the skip acknowledgement.
IsSkipAck(resp) == "message" \in DOMAIN resp.body /\ resp.body.message = MsgNotEnabled

\* Request r was answered as a no-op: no stage ran, the handler returned,
\* and the only response is an accepted one that is no skip acknowledgement.
TookNoOp(r) ==
    /\ NoCollaboratorCalled(r)
    /\ pc[r] = "done"
    /\ AnsweredWith(r, 200)
    /\ ~IsSkipAck(sent[r][1])

\* C22: the identifiers are looked at before the flag: when productId or
\* imageUrl is absent the outcome is the no-op whatever the flag (the
\* string "true" included), and the skip acknowledgement is never sent for
\* such an event.
C22_IdentifiersFirst ==
    \A r \in Reqs :
        NoOp(r) =>
            /\ TookNoOp(r)
            /\ \A i \in 1..Len(sent[r]) : ~IsSkipAck(sent[r][i])

\* The entries of the attributes of an event that carry the flag key, in
\* their order.
IsFlagEntry(a) == a.name = "generateDescription"
FlagEntries(ev) == SelectSeq(EventAttributes(ev), IsFlagEntry)

\* Request r, both identifiers present, ran the pipeline / was skipped.
BothPresent(r) ==
    /\ Parsed(r)
    /\ Present(EventProductId(EventOf(r)))
    /\ Present(EventImageUrl(EventOf(r)))
Ran(r) ==
    /\ calls[r] # <<>>
    /\ calls[r][1].fn = "productAnalysis"
    /\ \A i \in 1..Len(sent[r]) : ~IsSkipAck(sent[r][i])
WasSkipped(r) ==
    /\ calls[r] = <<>>
    /\ Len(sent[r]) = 1
    /\ sent[r][1].status = 200
    /\ IsSkipAck(sent[r][1])

\* C23: of several attributes named by the flag key only the first decides
\* the gate: the request is skipped when its value is not the string
\* "true", whatever the later ones are, and the pipeline runs when it is
\* "true", whatever the later ones are; attributes of other names decide
\* nothing (with no attribute of the flag key the request is skipped).
C23_FirstMatchWins ==
    \A r \in Reqs :
        BothPresent(r) =>
            LET flags == FlagEntries(EventOf(r)) IN
            /\ flags # <<>> /\ Head(flags).value # JStr("true") => WasSkipped(r)
            /\ flags # <<>> /\ Head(flags).value = JStr("true") => Ran(r)
            /\ flags = <<>> => WasSkipped(r)

\* The event had two flag attributes, "false" then "true": it was skipped.
C23_Witness ==
    \E r \in Reqs :
        /\ BothPresent(r)
        /\ Len(FlagEntries(EventOf(r))) = 2
        /\ FlagEntries(EventOf(r))[1].value = JStr("false")
        /\ FlagEntries(EventOf(r))[2].value = JStr("true")
        /\ WasSkipped(r)

\* ----------------------------------------------------------------- decoding
\* The payload of r decodes to whitespace and nothing else.
WhitespaceOnly(r) ==
    /\ pc[r] # "idle"
    /\ env[r].hasMessage
    /\ env[r].data.present
    /\ env[r].data.text.core.kind = "empty"
    /\ env[r].data.text.pad

\* C24: a payload that decodes to whitespace only is trimmed to the empty
\* string and is a missing payload: the only response is status 400 with
\* the fixed missing-payload message (not the 500 of a parse failure: the
\* parser is not reached), and no collaborator is invoked.
C24_WhitespacePayload ==
    \A r \in Reqs :
        WhitespaceOnly(r) =>
            /\ Trim(Base64Decode(env[r].data)) = EmptyText
            /\ pc[r] = "done"
            /\ sent[r] = <<[status |-> 400, body |-> [error |-> MsgNoData]]>>
            /\ NoCollaboratorCalled(r)

C24_Witness ==
    \E r \in Reqs :
        /\ WhitespaceOnly(r)
        /\ pc[r] = "done"
        /\ sent[r][1].status = 400

\* -------------------------------------------------------------- the catalog
\* The writes of request r that the catalog accepted.
AcceptedWrites(r) ==
    {i \in CallsTo(r, "products.post") : calls[r][i].out.kind = "ok"}

\* The descriptions Text Generation returned in request r.
Generated(r) ==
    {calls[r][i].out.val :
        i \in {j \in CallsTo(r, "generateProductDescription") : calls[r][j].out.kind = "ok"}}

\* C25: a 200 response that contains `description` is sent only when the
\* catalog has accepted the write of that request, and its description is
\* the one that write set for its productId; no write carries, and the
\* catalog never holds, a description that Text Generation did not return
\* in the request that wrote it.
C25_ResponseMatchesCatalog ==
    /\ \A r \in Reqs :
          /\ \A i \in 1..Len(sent[r]) :
                (sent[r][i].status = 200 /\ "description" \in DOMAIN sent[r][i].body) =>
                    \E w \in AcceptedWrites(r) :
                        /\ calls[r][w].args.id = sent[r][i].body.productId
                        /\ calls[r][w].args.actions[1].en = sent[r][i].body.description
                        /\ calls[r][w].out.val.body.description = sent[r][i].body.description
          /\ \A w \in CallsTo(r, "products.post") :
                calls[r][w].args.actions[1].en \in Generated(r)
    /\ \A p \in CatalogIds :
          catalog[p].description # Undefined =>
              \E r \in Reqs : \E w \in AcceptedWrites(r) :
                  /\ calls[r][w].args.id = JStr(p)
                  /\ calls[r][w].args.actions[1].en = catalog[p].description
                  /\ catalog[p].description \in Generated(r)

\* Text Generation returned d2, the catalog accepted the write of d2 for p1,
\* and the request was answered 200 with the description d2.
C25_Witness ==
    \E r \in Reqs :
        /\ Generated(r) = {JStr("d2")}
        /\ AcceptedWrites(r) # {}
        /\ catalog["p1"] = [version |-> 2, description |-> JStr("d2")]
        /\ Len(sent[r]) = 1
        /\ sent[r][1].status = 200
        /\ sent[r][1].body.description = JStr("d2")

\* The product as the catalog held it before any request.
Untouched == [version |-> 1, description |-> Undefined]

\* C26: a request that ends with a 400 response, as a no-op, with the skip
\* acknowledgement or with a 500 response has not modified the catalog:
\* description and version of a product change only through the accepted
\* writes (one version per accepted write, untouched without one), and a
\* request whose write was accepted ends with the 200 pipeline-success
\* response.
C26_CatalogFrame ==
    /\ \A p \in CatalogIds :
          /\ catalog[p].version = 1 + Cardinality(AcceptedFor(p))
          /\ AcceptedFor(p) = {} => catalog[p] = Untouched
    /\ \A r \in Reqs :
          /\ ( \/ MissingPayload(r) \/ NoOp(r) \/ Skipped(r)
               \/ AnsweredWith(r, 400) \/ AnsweredWith(r, 500) )
             => AcceptedWrites(r) = {}
          /\ AcceptedWrites(r) # {} =>
                /\ pc[r] = "done"
                /\ PipelineSuccess(r)
                /\ AnsweredWith(r, 200)
                /\ "description" \in DOMAIN sent[r][1].body

\* One request failed at Text Generation and was answered 500, another
\* succeeded: the catalog holds exactly the one write of the latter.
C26_Witness ==
    \E r, q \in Reqs :
        /\ AnsweredWith(r, 500)
        /\ Len(calls[r]) = 3
        /\ AcceptedWrites(r) = {}
        /\ AcceptedWrites(q) # {}
        /\ AnsweredWith(q, 200)
        /\ catalog["p1"].version = 2
        /\ catalog["p1"].description = calls[q][Len(calls[q])].args.actions[1].en

\* The body of request r has no `message` object.
NoMessage(r) == pc[r] # "idle" /\ ~env[r].hasMessage

\* C27: a request whose body has no `message` object is answered exactly
\* once and invokes no collaborator: reading the payload field of nothing
\* fails inside the handler, and the failure is answered with status 500
\* and `details`, not with the 400 missing-payload response.
C27_NoMessageObject ==
    \A r \in Reqs :
        NoMessage(r) =>
            /\ pc[r] = "done"
            /\ NoCollaboratorCalled(r)
            /\ Len(sent[r]) = 1
            /\ sent[r][1].status = 500
            /\ DOMAIN sent[r][1].body = {"error", "details"}
            /\ sent[r][1].body.error = MsgInternal
            /\ sent[r][1] # [status |-> 400, body |-> [error |-> MsgNoData]]

C27_Witness ==
    \E r \in Reqs :
        /\ NoMessage(r)
        /\ sent[r] = <<[status |-> 500,
                        body |-> [error |-> MsgInternal, details |-> TypeErrorNoMessage]]>>

\* ------------------------------------------------------------ resource type
\* The envelope that differs from e in the resource type only.
WithTypeId(e, t) == [e EXCEPT !.data.text.core.event.typeId = t]

\* What request r has done: its calls and its responses.
Done(r) == [calls |-> OwnCalls(r), sent |-> sent[r]]

\* C28: the resource type is no gate: an event that differs from the one
\* received in resource.typeId only ('product', another value, or absent),
\* its calls having the same results, leads to the same collaborator calls
\* and to the same response.
C28_TypeIdIsNoGate ==
    \A r \in Reqs :
        Parsed(r) =>
            \A t \in {Undefined, JStr("product"), JStr("category")} :
                Alone(WithTypeId(env[r], t), OwnResults(r)) = Done(r)

\* An event of another resource type than 'product' ran the whole pipeline
\* and was answered 200.
C28_Witness ==
    \E r \in Reqs :
        /\ Parsed(r)
        /\ EventOf(r).typeId = JStr("category")
        /\ PipelineSuccess(r)
        /\ AnsweredWith(r, 200)
        /\ Len(calls[r]) = 6

\* --------------------------------------------------------------- the image
\* The images of the master variant of an event: none when any step of the
\* path is missing.
EventImages(ev) ==
    IF ev.hasProjection /\ ev.hasMasterVariant /\ ev.images.present
    THEN ev.images.items
    ELSE <<>>

\* C29: only the first image counts: imageUrl is the url of images[0]; when
\* the images are absent or empty, or the first image has no url (a later
\* one may have), the request is a no-op; so it is when productId or the
\* url is the empty string; and Image Analysis is only ever invoked with
\* the url of the first image.
C29_FirstImageOnly ==
    \A r \in Reqs :
        Parsed(r) =>
            LET images == EventImages(EventOf(r))
                productId == EventProductId(EventOf(r))
            IN
            /\ images = <<>> => TookNoOp(r)
            /\ images # <<>> /\ images[1].url \in {Undefined, JStr("")} => TookNoOp(r)
            /\ productId \in {Undefined, JStr("")} => TookNoOp(r)
            /\ \A i \in CallsTo(r, "productAnalysis") :
                  /\ images # <<>>
                  /\ calls[r][i].args = <<images[1].url>>
            /\ locals[r].imageUrl =
                  (IF images = <<>> THEN Undefined ELSE images[1].url)

====
